---- MODULE Spec2Model ----
(***************************************************************************)
(* Robot Baseball fast solver (robot_baseball_fast.py).                    *)
(*                                                                         *)
(* The program computes with IEEE doubles.  Here a real number x is the    *)
(* integer round(x * 2^FracBits): binary fixed point with FracBits         *)
(* fractional bits.  Every product and quotient is rounded to the nearest  *)
(* representable value, as a floating-point operation is; sums and         *)
(* differences of representable values are exact.  The positive literals   *)
(* below the resolution are kept positive: the guard 1e-18 is one unit,    *)
(* the tolerance 1e-14 a few units (GuardEps, Tol).                        *)
(***************************************************************************)
EXTENDS Integers, Sequences, FiniteSets

\* Number of fractional bits of the number representation.
FracBits == 27

\* Number of bits of the grid from which the argument of q_of_p is drawn.
PBits == 11

\* The number of sample points, besides 0, around which a stand-alone call
\* of _golden_max takes its bracket.
NBrackets == 8

----------------------------------------------------------------------------
(* Arithmetic of the number representation                                 *)

\* 1.0
One == 2^FracBits

\* An integer n as a number (4.0, 1.0, 0.0).
Num(n) == n * One

Abs(x) == IF x < 0 THEN -x ELSE x

Sign(x) == IF x < 0 THEN -1 ELSE 1

Max(x, y) == IF x >= y THEN x ELSE y

Min(x, y) == IF x <= y THEN x ELSE y

Limb == 2^15

\* x * y of two non-negative numbers, rounded to nearest.  The exact product
\* does not fit a machine integer, so it is formed from 15-bit limbs:
\* x*y = hh*2^30 + cross*2^15 + ll.  The factors are evaluated once (vx, vy).
MulNat(x, y) ==
    CHOOSE q \in
        {LET x1 == vx \div Limb
             x0 == vx % Limb
             y1 == vy \div Limb
             y0 == vy % Limb
             hh == x1 * y1
             cross == x1 * y0 + x0 * y1
             ll == x0 * y0
             lowBits == FracBits - 15
             ch == cross \div 2^lowBits
             cl == cross % 2^lowBits
         IN  hh * 2^(30 - FracBits) + ch
               + ((cl * Limb + ll + 2^(FracBits - 1)) \div One) :
            vx \in {x}, vy \in {y}} : TRUE

\* The product x * y (float multiplication).
Mul(x, y) ==
    CHOOSE q \in
        {Sign(vx) * Sign(vy) * MulNat(Abs(vx), Abs(vy)) :
            vx \in {x}, vy \in {y}} : TRUE

\* One bit of the long division of rem by y: the state <<rem, acc>> after
\* the next quotient bit is appended to acc.  2 * rem is compared with y
\* as rem >= y - rem, which cannot overflow.
DivStep(st, y) ==
    IF st[1] >= y - st[1]
    THEN <<st[1] - (y - st[1]), 2 * st[2] + 1>>
    ELSE <<st[1] + st[1], 2 * st[2]>>

\* Four bits of the long division.
DivStep4(st, y) == DivStep(DivStep(DivStep(DivStep(st, y), y), y), y)

\* The n low fractional bits of rem / y, by long division, four bits at a
\* time; the last step rounds to nearest.  The state st is evaluated once
\* (v), then used.
RECURSIVE DivBits(_, _, _)
DivBits(st, y, n) ==
    CHOOSE q \in
        {IF n = 0
         THEN IF v[1] >= y - v[1] THEN v[2] + 1 ELSE v[2]
         ELSE IF n >= 4
              THEN DivBits(DivStep4(v, y), y, n - 4)
              ELSE DivBits(DivStep(v, y), y, n - 1) : v \in {st}} : TRUE

\* x / y of two non-negative numbers, y > 0, rounded to nearest.
DivNat(x, y) ==
    CHOOSE q \in
        {(vx \div vy) * One + DivBits(<<vx % vy, 0>>, vy, FracBits) :
            vx \in {x}, vy \in {y}} : TRUE

\* The quotient x / y (float division), y # 0.
Div(x, y) == Sign(x) * Sign(y) * DivNat(Abs(x), Abs(y))

\* A decimal literal m / 10^e (0.05 is Dec(5, 100)), rounded to nearest.
Dec(m, pow10) == (m * One + pow10 \div 2) \div pow10

\* The n low fractional bits of rem / y, by long division, rounded down.
RECURSIVE FloorBits(_, _, _)
FloorBits(st, y, n) ==
    CHOOSE q \in
        {IF n = 0 THEN v[2] ELSE FloorBits(DivStep(v, y), y, n - 1) :
            v \in {st}} : TRUE

\* x / y of two positive numbers, rounded down.
DivFloor(x, y) == (x \div y) * One + FloorBits(<<x % y, 0>>, y, FracBits)

\* x**0.5 for x >= 1.0: the largest g with g*g <= x, found bit by bit; g*g
\* is compared with x as g <= x/g, which cannot overflow.
RECURSIVE SqrtBits(_, _, _)
SqrtBits(x, g, bit) ==
    IF bit < 0 THEN g
    ELSE CHOOSE q \in
            {IF t <= x /\ t <= DivFloor(x, t) THEN SqrtBits(x, t, bit - 1)
                                              ELSE SqrtBits(x, g, bit - 1) :
                t \in {g + 2^bit}} : TRUE

Sqrt(x) == SqrtBits(x, 0, FracBits + 1)

----------------------------------------------------------------------------
(* State                                                                   *)

VARIABLES
    p,        \* _q_of_p: the parameter p (the point at which f is called)
    V,        \* _q_of_p: value grid V[b][s], b = 0..4, s = 0..3
    r,        \* _q_of_p: mix grid r[b][s]
    F,        \* _q_of_p: hitting probability grid F[b][s]
    qpc,      \* _q_of_p: position in the function body
    k,        \* _q_of_p: iteration number of the running (s, b) loop nest
    result,   \* the value returned by the last call of f
    writes    \* observer: the cells written by the running call, in order

qvars == <<p, V, r, F, qpc, k, result, writes>>

VARIABLES
    fn,       \* solve_fast: the objective f
    pc,       \* solve_fast / _golden_max: position
    i,        \* solve_fast: scan loop index
    best_p,   \* solve_fast
    best_q,   \* solve_fast
    q_prev,   \* solve_fast
    left,     \* solve_fast
    right,    \* solve_fast
    ga,       \* _golden_max: a
    gb,       \* _golden_max: b
    gc,       \* _golden_max: c
    gd,       \* _golden_max: d
    fc,       \* _golden_max
    fd,       \* _golden_max
    it,       \* _golden_max
    p_star,   \* solve_fast: first component of the result
    q_star,   \* solve_fast: second component of the result
    scanMax   \* observer: the largest value f returned during the scan

svars == <<fn, pc, i, best_p, best_q, q_prev, left, right,
           ga, gb, gc, gd, fc, fd, it, p_star, q_star, scanMax>>

vars == <<qvars, svars>>

----------------------------------------------------------------------------
(* Core DP: _equilibrium_r and _q_of_p                                     *)

Balls == 0..4

Strikes == 0..3

\* 1e-18 of the zero-denominator guard, in units of the resolution.
GuardEps == 1

\* A slip in the denominator: (B - A) for (A - B).
Denom_Swapped(A, B, pr) == (B - A) + Mul(pr, Num(4) - B)

\* denom = (A - B) + p * (4.0 - B)
Denom(A, B, pr) == (A - B) + Mul(pr, Num(4) - B)

\* r = p*(4-B) / ((A-B) + p*(4-B)), 0.0 when abs(denom) < 1e-18.
equilibrium_r(A, B, pr) ==
    CHOOSE rr \in
        {IF Abs(denom) < GuardEps THEN 0
         ELSE Div(Mul(pr, Num(4) - B), denom) : denom \in {Denom(A, B, pr)}} : TRUE

\* [[0.0]*4 for _ in range(5)]
ZeroGrid == [b \in Balls |-> [s \in Strikes |-> 0]]

\* for s in range(4): V[4][s] = 1.0
SetWalk(grid) == [grid EXCEPT ![4] = [s \in Strikes |-> One]]

\* A slip in the strikeout loop: range(4) for range(5), so that V[4][3]
\* keeps the 1.0 of the walk loop.
SetStrikeout_Range4(grid) ==
    [b \in Balls |-> IF b < 4 THEN [grid[b] EXCEPT ![3] = 0] ELSE grid[b]]

\* for b in range(5): V[b][3] = 0.0
SetStrikeout(grid) == [b \in Balls |-> [grid[b] EXCEPT ![3] = 0]]

\* for s in (2,1,0)
SLevels == <<2, 1, 0>>

\* A slip in the inner loop: b ascending.
BLevels_Ascending == <<0, 1, 2, 3>>

\* for b in (3,2,1,0)
BLevels == <<3, 2, 1, 0>>

\* Number of iterations of the loop nest.
NCells == Len(SLevels) * Len(BLevels)

\* The (b, s) of the n-th iteration of the loop nest, n = 1..NCells.
CellAt(n) ==
    <<BLevels[((n - 1) % Len(BLevels)) + 1], SLevels[((n - 1) \div Len(BLevels)) + 1]>>

\* rr of the body of the V/r loop at (b, s).
RCell(grid, pr, b, s) == equilibrium_r(grid[b + 1][s], grid[b][s + 1], pr)

\* V[b][s] = B + (A - B) * rr
VCell(grid, rr, b, s) ==
    LET A == grid[b + 1][s]
        B == grid[b][s + 1]
    IN  B + Mul(A - B, rr)

\* A slip in the weight of F[b][s+1]: the term with p added, not subtracted.
FCell_PlusP(grid, rr, pr, b, s) ==
    Mul(Mul(rr, rr), grid[b + 1][s])
      + Mul(One - Mul(rr, rr) + Mul(Mul(One - rr, One - rr), pr), grid[b][s + 1])

\* F[b][s] = (rr*rr) * F[b+1][s] + (1.0 - rr*rr - (1.0-rr)*(1.0-rr) * p) * F[b][s+1]
FCell(grid, rr, pr, b, s) ==
    Mul(Mul(rr, rr), grid[b + 1][s])
      + Mul(One - Mul(rr, rr) - Mul(Mul(One - rr, One - rr), pr), grid[b][s + 1])

\* F = [[0.0]*4 ...]; F[3][2] = 1.0
InitF == [ZeroGrid EXCEPT ![3][2] = One]

\* A slip in the test of the target cell: b and s exchanged.
IsTarget_Swapped(b, s) == b = 2 /\ s = 3

\* if b == 3 and s == 2: continue
IsTarget(b, s) == b = 3 /\ s = 2

\* The arguments p from which a stand-alone evaluation starts: a uniform
\* grid over [0,1] and the values next to the two ends.
PInputs ==
    {n * 2^(FracBits - PBits) : n \in 0..2^PBits} \cup {1, 2, 3, One - 1}

\* No call of f is running.
QIdle ==
    /\ p = 0 /\ V = ZeroGrid /\ r = ZeroGrid /\ F = ZeroGrid
    /\ qpc = "idle" /\ k = 0 /\ result = 0 /\ writes = <<>>

\* A call q_of_p(p): nothing is allocated yet.
QInit ==
    /\ p \in PInputs
    /\ V = ZeroGrid /\ r = ZeroGrid /\ F = ZeroGrid
    /\ qpc = "alloc" /\ k = 0 /\ result = 0 /\ writes = <<>>

\* V = [[0.0]*4 ...]; r = [[0.0]*4 ...]
AllocVr ==
    /\ qpc = "alloc" /\ fn = "q"
    /\ V' = ZeroGrid /\ r' = ZeroGrid
    /\ qpc' = "walk"
    /\ UNCHANGED <<p, F, k, result, writes>>
    /\ UNCHANGED svars

TermWalk ==
    /\ qpc = "walk"
    /\ V' = SetWalk(V)
    /\ qpc' = "strikeout"
    /\ UNCHANGED <<p, r, F, k, result, writes>>
    /\ UNCHANGED svars

TermStrikeout ==
    /\ qpc = "strikeout"
    /\ V' = SetStrikeout(V)
    /\ qpc' = "vpass" /\ k' = 1
    /\ UNCHANGED <<p, r, F, result, writes>>
    /\ UNCHANGED svars

\* One iteration of the backward induction for V and r.
VStep ==
    /\ qpc = "vpass" /\ k <= NCells
    /\ \E rr \in {RCell(V, p, CellAt(k)[1], CellAt(k)[2])} :
          LET b == CellAt(k)[1]
              s == CellAt(k)[2]
          IN  /\ r' = [r EXCEPT ![b][s] = rr]
              /\ V' = [V EXCEPT ![b][s] = VCell(V, rr, b, s)]
              /\ writes' = Append(writes, <<"V", b, s>>)
    /\ k' = k + 1
    /\ UNCHANGED <<p, F, qpc, result>>
    /\ UNCHANGED svars

AllocF ==
    /\ qpc = "vpass" /\ k > NCells
    /\ F' = InitF
    /\ qpc' = "fpass" /\ k' = 1
    /\ UNCHANGED <<p, V, r, result, writes>>
    /\ UNCHANGED svars

\* The iteration of the F loop at the target cell: continue.
FSkip ==
    /\ qpc = "fpass" /\ k <= NCells
    /\ IsTarget(CellAt(k)[1], CellAt(k)[2])
    /\ k' = k + 1
    /\ UNCHANGED <<p, V, r, F, qpc, result, writes>>
    /\ UNCHANGED svars

\* Any other iteration of the F loop.
FStep ==
    /\ qpc = "fpass" /\ k <= NCells
    /\ ~IsTarget(CellAt(k)[1], CellAt(k)[2])
    /\ LET b == CellAt(k)[1]
           s == CellAt(k)[2]
       IN  /\ F' = [F EXCEPT ![b][s] = FCell(F, r[b][s], p, b, s)]
           /\ writes' = Append(writes, <<"F", b, s>>)
    /\ k' = k + 1
    /\ UNCHANGED <<p, V, r, qpc, result>>
    /\ UNCHANGED svars

\* return F[0][0]
QReturn ==
    /\ qpc = "fpass" /\ k > NCells
    /\ result' = F[0][0]
    /\ qpc' = "done"
    /\ UNCHANGED <<p, V, r, F, k, writes>>
    /\ UNCHANGED svars

QNext ==
    \/ AllocVr \/ TermWalk \/ TermStrikeout \/ VStep
    \/ AllocF \/ FSkip \/ FStep \/ QReturn

----------------------------------------------------------------------------
(* Fast maximizer: _golden_max and solve_fast                              *)

\* n = 2049
NSamples == 2049

\* max_iter=250 of the call in solve_fast
MaxIter == 250

\* tol=1e-14 of the call in solve_fast.  1e-14 is some ninety spacings of
\* the doubles just below 1.0 and more for smaller numbers; the model keeps
\* the tolerance a few units of its resolution, here four.
Tol == 4

\* A number divided by an integer count, rounded to nearest.
DivInt(x, m) == (2 * x + m) \div (2 * m)

\* step = 1.0/(n-1)
Step == DivInt(One, NSamples - 1)

\* gr = (5**0.5 - 1.0) / 2.0
gr == Div(Sqrt(Num(5)) - One, Num(2))

\* The half-width 0.05 of the bracket.
BracketHalf == Dec(5, 100)

\* Objectives other than q, for the maximizer as a black box: the maximum
\* at 0, at 1, at an inner kink, everywhere, and values all below -1.
TestObjectives == {"dec", "inc", "tent", "flat", "low"}

\* f(x) for a test objective.
TestEval(f, x) ==
    CASE f = "dec"  -> One - x
      [] f = "inc"  -> x
      [] f = "tent" -> One - Abs(x - Dec(3, 10))
      [] f = "flat" -> 0
      [] f = "low"  -> x - Num(3)

\* while (b-a) > tol and it < max_iter
LoopCond(lo, hi, iter) == (hi - lo) > Tol /\ iter < MaxIter

\* c = b - gr*(b-a)
InnerC(lo, hi) == hi - Mul(gr, hi - lo)

\* A slip in d: the formula of c.
InnerD_AsC(lo, hi) == hi - Mul(gr, hi - lo)

\* d = a + gr*(b-a)
InnerD(lo, hi) == lo + Mul(gr, hi - lo)

\* A slip in the midpoint: half the width.
Midpoint_HalfWidth(lo, hi) == Mul(Dec(5, 10), hi - lo)

\* x = 0.5*(a+b)
Midpoint(lo, hi) == Mul(Dec(5, 10), lo + hi)

\* if qv > best_q
Better(qv, best) == qv > best

\* A slip in the branch test: the comparison reversed, as for a minimum.
GoLeft_Reversed(vc, vd) == vc > vd

\* if fc < fd
GoLeft(vc, vd) == vc < vd

\* A slip in the bracket: the left end not clamped to 0.0.
LeftOf_Unclamped(bp) == bp - BracketHalf

\* left = max(0.0, best_p - 0.05)
LeftOf(bp) == Max(0, bp - BracketHalf)

\* right = min(1.0, best_p + 0.05)
RightOf(bp) == Min(One, bp + BracketHalf)

\* The call f(x): control passes to the objective.
Call(x) ==
    /\ p' = x
    /\ qpc' = "alloc"
    /\ writes' = <<>>
    /\ UNCHANGED <<V, r, F, k, result>>

\* f has returned; its value is result.
Returned == qpc = "done"

\* The caller takes the returned value.
Resume ==
    /\ qpc' = "idle"
    /\ UNCHANGED <<p, V, r, F, k, result, writes>>

\* A test objective computes its value.
EvalTest ==
    /\ qpc = "alloc" /\ fn \in TestObjectives
    /\ result' = TestEval(fn, p)
    /\ qpc' = "done"
    /\ UNCHANGED <<p, V, r, F, k, writes>>
    /\ UNCHANGED svars

SIdle ==
    /\ fn = "q" /\ pc = "idle" /\ i = 0 /\ best_p = 0 /\ best_q = 0
    /\ q_prev = 0 /\ left = 0 /\ right = 0
    /\ ga = 0 /\ gb = 0 /\ gc = 0 /\ gd = 0 /\ fc = 0 /\ fd = 0 /\ it = 0
    /\ p_star = 0 /\ q_star = 0 /\ scanMax = 0

\* A call solve_fast() with objective f: no local is assigned yet.
SInit(objectives) ==
    /\ fn \in objectives /\ pc = "start" /\ i = 0 /\ best_p = 0 /\ best_q = 0
    /\ q_prev = 0 /\ left = 0 /\ right = 0
    /\ ga = 0 /\ gb = 0 /\ gc = 0 /\ gd = 0 /\ fc = 0 /\ fd = 0 /\ it = 0
    /\ p_star = 0 /\ q_star = 0 /\ scanMax = 0

\* best_p = 0.0; best_q = -1.0; step = 1.0/(n-1); q_prev = f(0.0) is called.
ScanInit ==
    /\ pc = "start"
    /\ best_p' = 0 /\ best_q' = -One
    /\ Call(0)
    /\ pc' = "q_prev"
    /\ UNCHANGED <<fn, i, q_prev, left, right, ga, gb, gc, gd, fc, fd, it,
                   p_star, q_star, scanMax>>

\* q_prev = f(0.0) is assigned; the loop for i in range(1, n) starts.
ScanFirst ==
    /\ pc = "q_prev" /\ Returned
    /\ q_prev' = result
    /\ scanMax' = result
    /\ i' = 1
    /\ pc' = "scan"
    /\ Resume
    /\ UNCHANGED <<fn, best_p, best_q, left, right, ga, gb, gc, gd, fc, fd, it,
                   p_star, q_star>>

\* p = i*step; qv = f(p) is called.
ScanCall ==
    /\ pc = "scan" /\ i < NSamples
    /\ Call(i * Step)
    /\ pc' = "qv"
    /\ UNCHANGED <<fn, i, best_p, best_q, q_prev, left, right, ga, gb, gc, gd,
                   fc, fd, it, p_star, q_star, scanMax>>

\* if qv > best_q: best_q, best_p = qv, p
ScanBetter ==
    /\ pc = "qv" /\ Returned
    /\ Better(result, best_q)
    /\ best_q' = result /\ best_p' = p
    /\ scanMax' = Max(scanMax, result)
    /\ i' = i + 1
    /\ pc' = "scan"
    /\ Resume
    /\ UNCHANGED <<fn, q_prev, left, right, ga, gb, gc, gd, fc, fd, it,
                   p_star, q_star>>

\* The sample is not better: the best one is kept.
ScanKeep ==
    /\ pc = "qv" /\ Returned
    /\ ~Better(result, best_q)
    /\ scanMax' = Max(scanMax, result)
    /\ i' = i + 1
    /\ pc' = "scan"
    /\ Resume
    /\ UNCHANGED <<fn, best_p, best_q, q_prev, left, right, ga, gb, gc, gd,
                   fc, fd, it, p_star, q_star>>

\* The bracket around best_p: left and right.
Bracket ==
    /\ pc = "scan" /\ i >= NSamples
    /\ left' = LeftOf(best_p)
    /\ right' = RightOf(best_p)
    /\ pc' = "golden"
    /\ UNCHANGED <<fn, i, best_p, best_q, q_prev, ga, gb, gc, gd, fc, fd, it,
                   p_star, q_star, scanMax>>
    /\ UNCHANGED qvars

\* _golden_max(f, left, right, tol=1e-14, max_iter=250) is entered: c and d
\* are computed and fc = f(c) is called.
GoldenEnter ==
    /\ pc = "golden"
    /\ ga' = left /\ gb' = right
    /\ gc' = InnerC(left, right)
    /\ gd' = InnerD(left, right)
    /\ Call(gc')
    /\ pc' = "fc0"
    /\ UNCHANGED <<fn, i, best_p, best_q, q_prev, left, right, fc, fd, it,
                   p_star, q_star, scanMax>>

\* fc = f(c) is assigned; fd = f(d) is called.
GoldenFc ==
    /\ pc = "fc0" /\ Returned
    /\ fc' = result
    /\ Call(gd)
    /\ pc' = "fd0"
    /\ UNCHANGED <<fn, i, best_p, best_q, q_prev, left, right, ga, gb, gc, gd,
                   fd, it, p_star, q_star, scanMax>>

\* fd = f(d) is assigned; it = 0.
GoldenFd ==
    /\ pc = "fd0" /\ Returned
    /\ fd' = result
    /\ it' = 0
    /\ pc' = "loop"
    /\ Resume
    /\ UNCHANGED <<fn, i, best_p, best_q, q_prev, left, right, ga, gb, gc, gd,
                   fc, p_star, q_star, scanMax>>

\* if fc < fd: a = c; c = d; fc = fd; d = a + gr*(b-a); fd = f(d) is called.
GoldenLeft ==
    /\ pc = "loop" /\ LoopCond(ga, gb, it)
    /\ GoLeft(fc, fd)
    /\ ga' = gc /\ gc' = gd /\ fc' = fd
    /\ gd' = InnerD(ga', gb)
    /\ Call(gd')
    /\ pc' = "fd"
    /\ UNCHANGED <<fn, i, best_p, best_q, q_prev, left, right, gb, fd, it,
                   p_star, q_star, scanMax>>

\* fd = f(d) is assigned; it += 1.
GoldenLeftEnd ==
    /\ pc = "fd" /\ Returned
    /\ fd' = result
    /\ it' = it + 1
    /\ pc' = "loop"
    /\ Resume
    /\ UNCHANGED <<fn, i, best_p, best_q, q_prev, left, right, ga, gb, gc, gd,
                   fc, p_star, q_star, scanMax>>

\* else: b = d; d = c; fd = fc; c = b - gr*(b-a); fc = f(c) is called.
GoldenRight ==
    /\ pc = "loop" /\ LoopCond(ga, gb, it)
    /\ ~GoLeft(fc, fd)
    /\ gb' = gd /\ gd' = gc /\ fd' = fc
    /\ gc' = InnerC(ga, gb')
    /\ Call(gc')
    /\ pc' = "fc"
    /\ UNCHANGED <<fn, i, best_p, best_q, q_prev, left, right, ga, fc, it,
                   p_star, q_star, scanMax>>

\* fc = f(c) is assigned; it += 1.
GoldenRightEnd ==
    /\ pc = "fc" /\ Returned
    /\ fc' = result
    /\ it' = it + 1
    /\ pc' = "loop"
    /\ Resume
    /\ UNCHANGED <<fn, i, best_p, best_q, q_prev, left, right, ga, gb, gc, gd,
                   fd, p_star, q_star, scanMax>>

\* The loop ends: x = 0.5*(a+b); f(x) is called.
GoldenExit ==
    /\ pc = "loop" /\ ~LoopCond(ga, gb, it)
    /\ p_star' = Midpoint(ga, gb)
    /\ Call(p_star')
    /\ pc' = "fx"
    /\ UNCHANGED <<fn, i, best_p, best_q, q_prev, left, right, ga, gb, gc, gd,
                   fc, fd, it, q_star, scanMax>>

\* return x, f(x); solve_fast returns the pair.
GoldenReturn ==
    /\ pc = "fx" /\ Returned
    /\ q_star' = result
    /\ pc' = "done"
    /\ Resume
    /\ UNCHANGED <<fn, i, best_p, best_q, q_prev, left, right, ga, gb, gc, gd,
                   fc, fd, it, p_star, scanMax>>

\* The steps of _golden_max.
GNext ==
    \/ GoldenEnter \/ GoldenFc \/ GoldenFd
    \/ GoldenLeft \/ GoldenLeftEnd \/ GoldenRight \/ GoldenRightEnd
    \/ GoldenExit \/ GoldenReturn

\* The steps of solve_fast.
SNext ==
    \/ ScanInit \/ ScanFirst \/ ScanCall \/ ScanBetter \/ ScanKeep
    \/ Bracket \/ GNext

----------------------------------------------------------------------------
(* Specifications                                                          *)

\* q_of_p(p) called on its own, for p drawn from PInputs.
InitQ == QInit /\ SIdle

SpecQ == InitQ /\ [][QNext]_vars

\* solve_fast() as written: f = _q_of_p.
Init == SInit({"q"}) /\ QIdle

Next == SNext \/ QNext

Spec == Init /\ [][Next]_vars

\* solve_fast() with the objective as a black box.
InitBlackBox == SInit({"q"} \cup TestObjectives) /\ QIdle

NextBlackBox == SNext \/ QNext \/ EvalTest

SpecBlackBox == InitBlackBox /\ [][NextBlackBox]_vars

\* The brackets solve_fast can hand to _golden_max: those around the sample
\* points j/NBrackets, j in 0..NBrackets.
BracketInputs ==
    {<<LeftOf(bp), RightOf(bp)>> :
        bp \in {(j * ((NSamples - 1) \div NBrackets)) * Step : j \in 0..NBrackets}}

\* The call _golden_max(f, left, right, tol=1e-14, max_iter=250) of
\* solve_fast on its own, for the brackets of BracketInputs; the locals of
\* the scan play no part in it.
InitGolden ==
    /\ fn \in {"q"} \cup TestObjectives
    /\ pc = "golden"
    /\ \E br \in BracketInputs : left = br[1] /\ right = br[2]
    /\ i = 0 /\ best_p = 0 /\ best_q = 0 /\ q_prev = 0
    /\ ga = 0 /\ gb = 0 /\ gc = 0 /\ gd = 0 /\ fc = 0 /\ fd = 0 /\ it = 0
    /\ p_star = 0 /\ q_star = 0 /\ scanMax = 0
    /\ QIdle

NextGolden == GNext \/ QNext \/ EvalTest

SpecGolden == InitGolden /\ [][NextGolden]_vars

\* The call runs to completion: the interpreter postpones no step forever.
FairGolden == SpecGolden /\ WF_vars(NextGolden)

----------------------------------------------------------------------------
(* Properties                                                              *)

\* The scan of solve_fast has ended.
ScanEnded == pc \in {"golden", "fc0", "fd0", "loop", "fd", "fc", "fx", "done"}

\* _golden_max is running or has returned.
InGolden == pc \in {"fc0", "fd0", "loop", "fd", "fc", "fx", "done"}

\* The terminal initialisation of the running call of q_of_p is done.
TerminalsSet == qpc \in {"vpass", "fpass", "done"}

\* The full-count-reach pass has started (F is allocated) or has finished.
FAllocated == qpc \in {"fpass", "done"}

\* The cells the V/r pass has computed so far.
VWritten == {<<w[2], w[3]>> : w \in {writes[j] : j \in {n \in 1..Len(writes) : writes[n][1] = "V"}}}

C2_RefinedDominatesScan ==
    (pc = "done" /\ fn = "q") =>
        /\ 0 < p_star /\ p_star < One
        /\ q_star >= scanMax
        /\ q_star >= q_prev
        /\ q_star >= best_q

C2_Witness ==
    /\ pc = "done" /\ fn = "q"
    /\ i = NSamples /\ it > 0
    /\ left < p_star /\ p_star < right
    /\ q_star >= scanMax

\* C3 as stated: once the terminals are set, V[4][s] = 1.0 for every s in
\* 0..3 and V[b][3] = 0.0 for every b in 0..4.
C3_AsStated ==
    TerminalsSet =>
        /\ \A s \in Strikes : V[4][s] = One
        /\ \A b \in Balls : V[b][3] = 0

\* C3, amended: once the terminals are set and at every later point of the
\* call, V[4][s] = 1.0 for s in 0..2 and V[b][3] = 0.0 for every b in 0..4
\* (the corner V[4][3] is 0.0: the strikeout loop runs last); the backward
\* induction writes no cell with b = 4 or s = 3.
C3_TerminalsFixed ==
    TerminalsSet =>
        /\ \A s \in 0..2 : V[4][s] = One
        /\ \A b \in Balls : V[b][3] = 0
        /\ \A j \in 1..Len(writes) : writes[j][2] # 4 /\ writes[j][3] # 3

C3_Witness ==
    /\ qpc = "done" /\ p > 0
    /\ V[4][3] = 0 /\ V[4][2] = One
    /\ 0 < V[0][0] /\ V[0][0] < One

\* C4: from the allocation of F to the end of the full-count-reach pass,
\* F[3][2] = 1.0, F[4][s] = 0.0 for every s and F[b][3] = 0.0 for every b:
\* the pass writes neither the cell (3,2) nor a cell with b = 4 or s = 3.
C4_FBoundary ==
    FAllocated =>
        /\ F[3][2] = One
        /\ \A s \in Strikes : F[4][s] = 0
        /\ \A b \in Balls : F[b][3] = 0
        /\ \A j \in 1..Len(writes) :
              writes[j][1] = "F" =>
                  /\ ~(writes[j][2] = 3 /\ writes[j][3] = 2)
                  /\ writes[j][2] # 4 /\ writes[j][3] # 3

C4_Witness ==
    /\ qpc = "done" /\ p > 0
    /\ Len(writes) = 23
    /\ 0 < F[2][2] /\ F[2][2] < One
    /\ F[3][2] = One

\* C5: every mixing probability the value pass has computed lies in [0,1]:
\* at its cell the denominator (A-B) + p*(4-B) is non-negative, with
\* A = V[b+1][s] >= B = V[b][s+1], and a zero denominator gives r = 0.
C5_MixIsProbability ==
    TerminalsSet =>
        /\ \A b \in Balls : \A s \in Strikes : 0 <= r[b][s] /\ r[b][s] <= One
        /\ \A c \in VWritten :
              LET A == V[c[1] + 1][c[2]]
                  B == V[c[1]][c[2] + 1]
              IN  /\ A >= B
                  /\ Denom(A, B, p) >= 0
                  /\ Denom(A, B, p) = 0 => r[c[1]][c[2]] = 0

C5_Witness ==
    /\ qpc = "done" /\ p > 0 /\ p < One
    /\ \A b \in 0..3 : \A s \in 0..2 : 0 < r[b][s] /\ r[b][s] < One

\* C6: every F[b][s] lies in [0,1] from the allocation of F on, and the
\* returned q(p) is F[0][0], in [0,1].
C6_FIsProbability ==
    /\ FAllocated =>
          \A b \in Balls : \A s \in Strikes : 0 <= F[b][s] /\ F[b][s] <= One
    /\ (qpc = "done" /\ fn = "q") =>
          result = F[0][0] /\ 0 <= result /\ result <= One

C6_Witness ==
    /\ qpc = "done" /\ p > 0
    /\ 0 < result /\ result < One
    /\ \A b \in 0..3 : \A s \in 0..2 : IsTarget(b, s) \/ (0 < F[b][s] /\ F[b][s] < One)

\* C7: every point passed to f lies in [0,1], the bracket ends lie in
\* [0,1], and a <= c <= d <= b throughout the golden-section search, whose
\* midpoint lies in the final bracket.
C7_PointsInUnitInterval ==
    /\ qpc # "idle" => 0 <= p /\ p <= One
    /\ InGolden =>
          /\ left = Max(0, best_p - BracketHalf)
          /\ right = Min(One, best_p + BracketHalf)
          /\ 0 <= left /\ left <= right /\ right <= One
          /\ 0 <= ga /\ ga <= gc /\ gc <= gd /\ gd <= gb /\ gb <= One
    /\ pc \in {"fx", "done"} => ga <= p_star /\ p_star <= gb

C7_Witness ==
    /\ pc = "loop" /\ it >= 2
    /\ best_p - BracketHalf < 0 /\ left = 0
    /\ ga < gc /\ gc < gd /\ gd < gb

\* A step that takes a branch of the golden-section loop.
IterationStep == pc = "loop" /\ pc' \in {"fd", "fc"}

\* gr^2, gr^4, ... by repeated squaring, each product rounded.
GrP2 == MulNat(gr, gr)
GrP4 == MulNat(GrP2, GrP2)
GrP8 == MulNat(GrP4, GrP4)
GrP16 == MulNat(GrP8, GrP8)
GrP32 == MulNat(GrP16, GrP16)
GrP64 == MulNat(GrP32, GrP32)
GrP128 == MulNat(GrP64, GrP64)

\* x if the bit of weight 2^e is set in n, else 1.0.
BitFactor(n, e, x) == IF (n \div 2^e) % 2 = 1 THEN x ELSE One

\* gr^n for n in 0..255.
GrPow(n) ==
    MulNat(MulNat(MulNat(BitFactor(n, 0, gr), BitFactor(n, 1, GrP2)),
                  MulNat(BitFactor(n, 2, GrP4), BitFactor(n, 3, GrP8))),
           MulNat(MulNat(BitFactor(n, 4, GrP16), BitFactor(n, 5, GrP32)),
                  MulNat(BitFactor(n, 6, GrP64), BitFactor(n, 7, GrP128))))

C9_Step ==
    /\ IterationStep => (gb - ga > Tol /\ it < MaxIter /\ it' = it)
    /\ (pc \in {"fd", "fc"} /\ pc' = "loop") => it' = it + 1
    /\ (pc = "loop" /\ pc' = "fx") => (gb - ga <= Tol \/ it >= MaxIter)

\* The state of _golden_max on and after the exit of the loop.
C9_Exit ==
    /\ it <= MaxIter
    /\ pc \in {"fx", "done"} =>
          /\ (gb - ga <= Tol \/ it >= MaxIter)
          /\ 2 * p_star - (ga + gb) \in {0, 1}
          /\ p = p_star
    /\ pc = "done" =>
          /\ q_star = result
          /\ fn = "q" => result = F[0][0]
          /\ fn # "q" => result = TestEval(fn, p_star)

\* C9: the golden-section refinement terminates; the loop runs while the
\* width is above the tolerance and fewer than 250 iterations have run, so
\* at most 250 iterations; on exit the width is at most the tolerance or
\* the cap is reached, and the result is the midpoint of the final bracket
\* with the value of f there.
C9_Terminates == <>(pc = "done") /\ []C9_Exit /\ [][C9_Step]_vars

C9_Witness ==
    /\ pc = "done" /\ it > 0 /\ it < MaxIter
    /\ gb - ga <= Tol
    /\ ga <= p_star /\ p_star <= gb
    /\ q_star = result

\* The order in which the passes are to write the cells: s = 2, 1, 0 and,
\* within each s, b = 3, 2, 1, 0.
ExpectedCells ==
    << <<3, 2>>, <<2, 2>>, <<1, 2>>, <<0, 2>>,
       <<3, 1>>, <<2, 1>>, <<1, 1>>, <<0, 1>>,
       <<3, 0>>, <<2, 0>>, <<1, 0>>, <<0, 0>> >>

ExpectedWrites ==
    [j \in 1..23 |->
        IF j <= 12 THEN <<"V", ExpectedCells[j][1], ExpectedCells[j][2]>>
        ELSE <<"F", ExpectedCells[j - 11][1], ExpectedCells[j - 11][2]>>]

\* The cell <<b, s>> is final for the write number j of a pass: a terminal,
\* the target of the F pass, or written earlier in the same pass.
FinalBefore(pass, b, s, j) ==
    \/ b = 4 \/ s = 3
    \/ pass = "F" /\ b = 3 /\ s = 2
    \/ \E h \in 1..(j - 1) : writes[h] = <<pass, b, s>>

\* C10: both passes write the cells in the order s = 2, 1, 0 and, within
\* each s, b = 3, 2, 1, 0; the two cells a write reads are final by then;
\* no cell is written twice; the V/r pass writes 12 cells, the F pass 11,
\* and the F pass starts only when the V/r pass has finished.
C10_BackwardOrder ==
    /\ Len(writes) <= 23
    /\ \A j \in 1..Len(writes) :
          /\ writes[j] = ExpectedWrites[j]
          /\ FinalBefore(writes[j][1], writes[j][2] + 1, writes[j][3], j)
          /\ FinalBefore(writes[j][1], writes[j][2], writes[j][3] + 1, j)
          /\ \A h \in 1..(j - 1) : writes[h] # writes[j]
          /\ writes[j][1] = "F" => (j > 12 /\ qpc \in {"fpass", "done"})
    /\ qpc \in {"alloc", "walk", "strikeout"} => Len(writes) = 0
    /\ qpc = "vpass" => Len(writes) = k - 1
    /\ qpc = "done" => Len(writes) = 23

C10_Witness ==
    /\ qpc = "done" /\ Len(writes) = 23 /\ p > 0
    /\ writes[12] = <<"V", 0, 0>> /\ writes[23] = <<"F", 0, 0>>

====
